---- MODULE Spec2Model ----
(***************************************************************************)
(* A model of xkcdpass (src/xkcdpass/xkcd_password.py): the word-list      *)
(* filter, the acrostic index, the selectors, the case transforms, the     *)
(* passphrase assembler, the entropy report and the main line with its     *)
(* interactive loop.                                                       *)
(*                                                                         *)
(* A Python string is a sequence of characters; a character is a one-      *)
(* character TLA+ string, except "sz", which stands for the single         *)
(* character U+00DF (LATIN SMALL LETTER SHARP S).                          *)
(***************************************************************************)
EXTENDS Integers, Sequences, FiniteSets, TLC

VARIABLES
    call,         \* the function called (main, or a library function) with its arguments
    ret,          \* what the call produced: a value, or an unhandled exception
    pc,           \* where the run of main stands
    environ,      \* the platform: secure generator, weak-RNG opt-in, word file
    options,      \* the parsed command-line options
    rng,          \* the module-level rng class
    my_wordlist,  \* main's my_wordlist
    stderr,       \* the messages written to sys.stderr, in order
    stdout,       \* what was printed: the report, the passphrases
    count,        \* emit_passwords' count
    passwd,       \* the outcome of the last gen_passwd()
    returned,     \* what the last generate_xkcdpassword returned; none while it runs
    answer,       \* the last answer to the "Accept? [yN] " prompt
    numwords_answer,  \* the answer to the "Enter number of words" prompt
    draws         \* the random draws made: what for, and from which generator

lib_vars == <<call, ret>>

main_vars ==
    <<pc, environ, options, rng, my_wordlist, stderr, stdout, count, passwd,
      returned, answer, numwords_answer, draws>>

vars == <<lib_vars, main_vars>>

---------------------------------------------------------------------------
(* Bounds of the model. *)

\* Longest word sequence handed to set_case.
MaxCaseWords == 3

\* Most lines in a word file.
MaxLines == 2

\* Longest word list handed to choose_words and to wordlist_to_worddict.
MaxListLen == 2

\* Largest numwords handed to choose_words.
MaxNumWords == 2

\* Longest acrostic.
MaxAcrostic == 3

\* Largest numwords handed to generate_xkcdpassword.
MaxGenWords == 2

\* Largest num_digits handed to generate_xkcdpassword.
MaxDigits == 1

\* Largest --count of a run of main.
MaxCount == 2

\* Largest --numwords of a run of main.
MaxMainWords == 2

---------------------------------------------------------------------------
(* Outcomes of a call: a value, sys.exit(code) or an unhandled exception. *)

NoRet == [kind |-> "none"]
Ok(v) == [kind |-> "ok", val |-> v]
Exit(c, msg) == [kind |-> "exit", code |-> c, stderr |-> msg]
Fault(e) == [kind |-> "fault", exc |-> e]

Range(s) == {s[i] : i \in DOMAIN s}

\* All sequences over S of length 0..n.
SeqsUpTo(S, n) == UNION {[1..k -> S] : k \in 0..n}

RECURSIVE Concat(_)
\* The concatenation of a sequence of strings.
Concat(ss) == IF ss = <<>> THEN <<>> ELSE Head(ss) \o Concat(Tail(ss))

---------------------------------------------------------------------------
(* Python's str.upper, str.lower and str.capitalize (full Unicode case     *)
(* mapping, as Python 3 applies it): "sz" (U+00DF) has the uppercase "SS"  *)
(* and the title case "Ss"; every other character maps to one character.   *)

upper_char(c) ==
    CASE c = "a" -> <<"A">>
      [] c = "b" -> <<"B">>
      [] c = "s" -> <<"S">>
      [] c = "y" -> <<"Y">>
      [] c = "e" -> <<"E">>
      [] c = "n" -> <<"N">>
      [] c = "sz" -> <<"S", "S">>
      [] OTHER -> <<c>>

lower_char(c) ==
    CASE c = "A" -> <<"a">>
      [] c = "B" -> <<"b">>
      [] c = "S" -> <<"s">>
      [] c = "Y" -> <<"y">>
      [] c = "E" -> <<"e">>
      [] c = "N" -> <<"n">>
      [] OTHER -> <<c>>

title_char(c) == IF c = "sz" THEN <<"S", "s">> ELSE upper_char(c)

str_upper(w) == Concat([i \in DOMAIN w |-> upper_char(w[i])])

str_lower(w) == Concat([i \in DOMAIN w |-> lower_char(w[i])])

str_capitalize(w) ==
    IF w = <<>> THEN <<>> ELSE title_char(Head(w)) \o str_lower(Tail(w))

---------------------------------------------------------------------------
(* The case methods.  A deterministic method is an operator from a word    *)
(* sequence to a word sequence; random_case is the set of its outcomes.    *)

lower_case(words) == [i \in DOMAIN words |-> str_lower(words[i])]

upper_case(words) == [i \in DOMAIN words |-> str_upper(words[i])]

first_upper_case(words) == [i \in DOMAIN words |-> str_capitalize(words[i])]

capitalize_case(words) == [i \in DOMAIN words |-> str_capitalize(words[i])]

\* enumerate() counts from 0: position i of the TLA+ sequence is index i - 1.
sentence_case(words) ==
    [i \in DOMAIN words |->
        IF i - 1 = 0 THEN str_capitalize(words[i]) ELSE words[i]]

\* Variant: only the words at the even indices are returned.
AlternatingDropsOddWords(words) ==
    LET low == lower_case(words)
        kept == (Len(low) + 1) \div 2
    IN [k \in 1..kept |-> str_upper(low[2 * k - 1])]

alternating_case(words) ==
    LET low == lower_case(words)
    IN [i \in DOMAIN low |->
           IF (i - 1) % 2 = 0 THEN str_upper(low[i]) ELSE low[i]]

\* random_case: each word of lower_case(words) is uppercased or kept on a
\* coin flip (random.choice([True, False])).  With testing, the generator
\* is seeded with the word before its flip, so equal words get equal flips.
random_case(words, testing) ==
    LET low == lower_case(words)
        flips == {f \in [DOMAIN low -> BOOLEAN] :
                     testing => \A i, j \in DOMAIN low :
                                    low[i] = low[j] => f[i] = f[j]}
    IN {[i \in DOMAIN low |-> IF f[i] THEN str_upper(low[i]) ELSE low[i]] :
           f \in flips}

CASE_METHODS ==
    {"sentence", "alternating", "upper", "lower", "random", "first",
     "capitalize"}

\* set_case(words, method, testing): the set of sequences it may return.
set_case(words, method, testing) ==
    IF method = "random" /\ testing
    THEN random_case(words, TRUE)
    ELSE CASE method = "sentence" -> {sentence_case(words)}
           [] method = "alternating" -> {alternating_case(words)}
           [] method = "upper" -> {upper_case(words)}
           [] method = "lower" -> {lower_case(words)}
           [] method = "random" -> random_case(words, FALSE)
           [] method = "first" -> {first_upper_case(words)}
           [] method = "capitalize" -> {capitalize_case(words)}

---------------------------------------------------------------------------
(* generate_wordlist: the filter. *)

Whitespace == {" ", "\n"}

RECURSIVE lstrip(_)
lstrip(w) ==
    IF w # <<>> /\ Head(w) \in Whitespace THEN lstrip(Tail(w)) ELSE w

RECURSIVE rstrip(_)
rstrip(w) ==
    IF w # <<>> /\ w[Len(w)] \in Whitespace
    THEN rstrip(SubSeq(w, 1, Len(w) - 1))
    ELSE w

\* str.strip(): leading and trailing whitespace removed.
str_strip(w) == rstrip(lstrip(w))

DigitChar(d) ==
    CASE d = 0 -> "0" [] d = 1 -> "1" [] d = 2 -> "2" [] d = 3 -> "3"
      [] d = 4 -> "4" [] d = 5 -> "5" [] d = 6 -> "6" [] d = 7 -> "7"
      [] d = 8 -> "8" [] d = 9 -> "9"

RECURSIVE str_nat(_)
str_nat(n) ==
    IF n < 10 THEN <<DigitChar(n)>>
    ELSE str_nat(n \div 10) \o <<DigitChar(n % 10)>>

\* str(n) / "{0}".format(n) of an integer.
str_int(n) == IF n < 0 THEN <<"-">> \o str_nat(0 - n) ELSE str_nat(n)

\* One character against the character class valid_chars: "." is any
\* character but a newline, "[a-z]" a lowercase ASCII letter.
class_match(valid_chars, c) ==
    CASE valid_chars = "." -> c # "\n"
      [] valid_chars = "[a-z]" -> c \in {"a", "b", "e", "n", "s", "y"}

\* regexp.match(thisword) for the pattern "^{0}{{{1},{2}}}$".format(
\* valid_chars, min_length, max_length).  "{m,n}" is a repetition only when
\* m and n are digit strings; with a "-" in it the braces and what they hold
\* are literal characters that follow one character of the class.
regexp_match(valid_chars, min_length, max_length, thisword) ==
    IF min_length >= 0 /\ max_length >= 0
    THEN /\ Len(thisword) >= min_length
         /\ Len(thisword) <= max_length
         /\ \A i \in DOMAIN thisword : class_match(valid_chars, thisword[i])
    ELSE LET lit == <<"{">> \o str_int(min_length) \o <<",">>
                        \o str_int(max_length) \o <<"}">>
         IN /\ Len(thisword) = 1 + Len(lit)
            /\ class_match(valid_chars, thisword[1])
            /\ SubSeq(thisword, 2, Len(thisword)) = lit

\* The orders list(words) may give a set.
ListsOf(S) ==
    {p \in [1..Cardinality(S) -> S] :
        \A i, j \in 1..Cardinality(S) : p[i] = p[j] => i = j}

NoFile == [found |-> FALSE]
WordFile(lines) == [found |-> TRUE, lines |-> lines]

\* generate_wordlist(wordfile, min_length, max_length, valid_chars): the
\* outcomes.  open(None) raises TypeError when no word file was located.
generate_wordlist(wordfile, min_length, max_length, valid_chars) ==
    LET max_len == IF min_length > max_length THEN min_length ELSE max_length
    IN IF ~wordfile.found THEN {Fault("TypeError")}
       ELSE LET words ==
                    {str_strip(wordfile.lines[i]) : i \in DOMAIN wordfile.lines}
                kept == {w \in words :
                            regexp_match(valid_chars, min_length, max_len, w)}
            IN {Ok(p) : p \in ListsOf(kept)}

---------------------------------------------------------------------------
(* The acrostic index and the selectors. *)

\* wordlist_to_worddict: word[0] of an empty word raises IndexError.
wordlist_to_worddict(wordlist) ==
    IF \E i \in DOMAIN wordlist : wordlist[i] = <<>>
    THEN Fault("IndexError")
    ELSE Ok([c \in {wordlist[i][1] : i \in DOMAIN wordlist} |->
                SelectSeq(wordlist, LAMBDA w : w[1] = c)])

NoWordsMessage(letter) == <<"No words found starting with ", letter>>

\* find_acrostic(acrostic, worddict): one rng().choice per letter, in order;
\* the first letter without a bucket ends it with sys.exit(1).
find_acrostic(acrostic, worddict) ==
    LET missing == {i \in DOMAIN acrostic : acrostic[i] \notin DOMAIN worddict}
    IN IF missing # {}
       THEN LET first == CHOOSE i \in missing : \A j \in missing : i <= j
            IN {Exit(1, NoWordsMessage(acrostic[first]))}
       ELSE {Ok(ws) : ws \in {s \in [DOMAIN acrostic ->
                                        UNION {Range(worddict[c]) :
                                                  c \in DOMAIN worddict}] :
                                 \A i \in DOMAIN acrostic :
                                     s[i] \in Range(worddict[acrostic[i]])}}

\* Variant: one draw more than numwords.
ChooseWordsOneTooMany(wordlist, numwords) ==
    IF wordlist = <<>>
    THEN {Fault("IndexError")}
    ELSE {Ok(ws) : ws \in [1..(numwords + 1) -> Range(wordlist)]}

\* choose_words(wordlist, numwords): numwords draws of rng().choice, which
\* raises IndexError on an empty list; xrange(n) is empty for n <= 0.
choose_words(wordlist, numwords) ==
    IF numwords > 0 /\ wordlist = <<>>
    THEN {Fault("IndexError")}
    ELSE {Ok(ws) : ws \in [1..numwords -> Range(wordlist)]}

---------------------------------------------------------------------------
(* generate_xkcdpassword: the assembler. *)

ALLOWED_SYMBOLS ==
    <<"!", "#", "$", "%", "&", "(", ")", "*", "+", ",", "-", ".", ":", ";",
      "<", "=", ">", "?", "@", "[", "]", "^", "_", "{", "|", "}", "~">>

\* The default of num_symbols.
DEFAULT_NUM_SYMBOLS == 1

\* Variant: every word is followed by the delimiter, the last one too.
JoinWithTrailingDelimiter(delimiter, words) ==
    Concat([i \in DOMAIN words |-> words[i] \o delimiter])

RECURSIVE str_join(_, _)
\* delimiter.join(words)
str_join(delimiter, words) ==
    IF words = <<>> THEN <<>>
    ELSE IF Len(words) = 1 THEN Head(words)
    ELSE Head(words) \o delimiter \o str_join(delimiter, Tail(words))

\* The digits loop: num_digits times str(random.randint(0, 9)); ds holds
\* the numbers drawn.
digits_of(ds) == Concat([i \in DOMAIN ds |-> str_int(ds[i])])

\* The symbols loop: num_symbols times
\* ALLOWED_SYMBOLS[random.randint(0, len(ALLOWED_SYMBOLS) - 1)]; ks holds the
\* numbers drawn.
symbols_of(ks) == [i \in DOMAIN ks |-> ALLOWED_SYMBOLS[ks[i] + 1]]

\* What a successful gen_passwd leaves: the passphrase, with the words it
\* selected and their cased form.
Generated(pw, words, cased) ==
    [kind |-> "ok", val |-> pw, words |-> words, cased |-> cased]

\* gen_passwd() inside generate_xkcdpassword: out is one of its outcomes.
\* acrostic is False or "" (here << >>) for plain mode.
gen_passwd(wordlist, worddict, numwords, acrostic, delimiter, case, num_digits, num_symbols, out) ==
    \E w \in IF acrostic = <<>>
             THEN choose_words(wordlist, numwords)
             ELSE find_acrostic(acrostic, worddict) :
        IF w.kind # "ok" THEN out = w
        ELSE \E cased \in set_case(w.val, case, FALSE),
                ds \in [1..num_digits -> 0..9],
                ks \in [1..num_symbols -> 0..(Len(ALLOWED_SYMBOLS) - 1)] :
                 out = Generated(str_join(delimiter, cased) \o digits_of(ds)
                                     \o symbols_of(ks),
                                 w.val, cased)

\* generate_xkcdpassword(..., interactive=False): worddict is built first
\* when acrostic is set, then gen_passwd() is returned.
generate_xkcdpassword(wordlist, numwords, acrostic, delimiter, case, num_digits, num_symbols, out) ==
    LET worddict == IF acrostic # <<>> THEN wordlist_to_worddict(wordlist)
                    ELSE Ok(<<>>)
    IN IF worddict.kind = "fault" THEN out = worddict
       ELSE gen_passwd(wordlist, worddict.val, numwords, acrostic, delimiter,
                       case, num_digits, num_symbols, out)

---------------------------------------------------------------------------
(* The interactive prompts. *)

NoAnswer == [kind |-> "none"]
Line(text) == [kind |-> "line", text |-> text]
\* KeyboardInterrupt or EOFError raised by raw_input.
Interrupt == [kind |-> "interrupt"]

DigitChars == {DigitChar(d) : d \in 0..9}

RECURSIVE nat_of(_)
nat_of(ds) ==
    IF ds = <<>> THEN 0
    ELSE 10 * nat_of(SubSeq(ds, 1, Len(ds) - 1))
             + (CHOOSE d \in 0..9 : DigitChar(d) = ds[Len(ds)])

\* int(answer): surrounding whitespace and a sign are accepted; anything
\* but decimal digits after them raises ValueError.
int_parse(text) ==
    LET t == str_strip(text)
        signed == t # <<>> /\ Head(t) \in {"-", "+"}
        body == IF signed THEN Tail(t) ELSE t
    IN IF body = <<>> \/ \E i \in DOMAIN body : body[i] \notin DigitChars
       THEN Fault("ValueError")
       ELSE Ok(IF signed /\ Head(t) = "-" THEN 0 - nat_of(body)
               ELSE nat_of(body))

PositiveIntegerMessage == <<"Please enter a positive integer">>

\* Variant: the threshold is number < 0.
NWordsValidatorAcceptsZero(text, numwords) ==
    IF text = <<>> THEN Ok(numwords)
    ELSE LET number == int_parse(text)
         IN IF number.kind = "fault" \/ number.val < 0
            THEN Exit(1, PositiveIntegerMessage)
            ELSE Ok(number.val)

\* n_words_validator(answer) inside initialize_interactive_run.
n_words_validator(text, numwords) ==
    IF text = <<>> THEN Ok(numwords)
    ELSE LET number == int_parse(text)
         IN IF number.kind = "fault" \/ number.val < 1
            THEN Exit(1, PositiveIntegerMessage)
            ELSE Ok(number.val)

\* Variant: any answer holding a "y" accepts.
AcceptsAnyAnswerWithY(text) ==
    \E i \in DOMAIN text : text[i] \in {"y", "Y"}

\* accepted_validator(answer) inside generate_xkcdpassword.
accepted_validator(text) ==
    str_strip(str_lower(text)) \in {<<"y">>, <<"y", "e", "s">>}

---------------------------------------------------------------------------
(* verbose_reports: the entropy report. *)

RECURSIVE bucket_sum(_, _)
\* length += len(worddict.get(char, [])) for char in acrostic
bucket_sum(acrostic, worddict) ==
    IF acrostic = <<>> THEN 0
    ELSE (IF Head(acrostic) \in DOMAIN worddict
          THEN Len(worddict[Head(acrostic)]) ELSE 0)
         + bucket_sum(Tail(acrostic), worddict)

\* verbose_reports(wordlist, options): the report it prints, or the
\* exception it raises; math.log(0, 2) raises ValueError.
verbose_reports(wordlist, acrostic, numwords) ==
    LET worddict == IF acrostic # <<>> THEN wordlist_to_worddict(wordlist)
                    ELSE Ok(<<>>)
    IN IF worddict.kind = "fault" THEN worddict
       ELSE LET length == IF acrostic # <<>>
                          THEN bucket_sum(acrostic, worddict.val)
                          ELSE Len(wordlist)
                n == IF acrostic # <<>> THEN Len(acrostic) ELSE numwords
            IN IF length = 0 THEN Fault("ValueError")
               ELSE Ok([length |-> length, numwords |-> n])

---------------------------------------------------------------------------
(* A run of the program: the module is imported, then main runs. *)

RngWarning ==
    <<"WARNING: System does not support cryptographically secure random number generator or you are using Python version < 2.4.">>
ContinuingMessage == <<"Continuing with less-secure generator.">>
MaxLessThanMinWarning ==
    <<"Warning: maximum word length less than minimum. Setting maximum equal to minimum.">>
NoWordFileMessage ==
    <<"Could not find a word file, or word file does not exist.">>

\* argparse's defaults of the options a run leaves alone.
DEFAULT_NUMWORDS == 3
DEFAULT_NUM_DIGITS == 1
DEFAULT_CASE == "sentence"
DEFAULT_DELIMITER == <<".">>
DEFAULT_VALID_CHARS == "."

\* The word files of a run: none found, one blank line, two words.
MainWordFiles ==
    {NoFile, WordFile(<<<<"\n">>>>),
     WordFile(<<<<"a", "b", "\n">>, <<"B", "\n">>>>)}

\* --min and --max of a run: one that keeps the blank line, one that keeps
\* only the longer word, and one with the maximum below the minimum.
MainLengths == {<<0, 2>>, <<2, 2>>, <<2, 1>>}

\* --acrostic of a run: off, one whose letters both start a word, one
\* whose second letter starts none.
MainAcrostics == {<<>>, <<"a", "B">>, <<"a", "c">>}

\* -n and -a are mutually exclusive: numwords keeps its default with -a.  A
\* run appends digits or symbols, not both (SpecGen has both together).
MainOptions ==
    {[min_length |-> l[1], max_length |-> l[2],
      valid_chars |-> DEFAULT_VALID_CHARS, interactive |-> i, acrostic |-> a,
      numwords |-> n, count |-> c, verbose |-> v, case |-> DEFAULT_CASE,
      delimiter |-> DEFAULT_DELIMITER, num_digits |-> nd, num_symbols |-> ns] :
        l \in MainLengths, i \in BOOLEAN, a \in MainAcrostics,
        n \in 0..MaxMainWords \cup {DEFAULT_NUMWORDS}, c \in 0..MaxCount,
        v \in BOOLEAN, nd \in {0, DEFAULT_NUM_DIGITS},
        ns \in {0, DEFAULT_NUM_SYMBOLS}}

\* Answers to "Enter number of words".
NumWordsAnswers ==
    {Interrupt, Line(<<>>), Line(<<"1">>), Line(<<" ", "2">>), Line(<<"0">>),
     Line(<<"-", "1">>), Line(<<"a">>), Line(<<" ">>)}

\* Answers to "Accept? [yN] ".
AcceptAnswers ==
    {Interrupt, Line(<<>>), Line(<<"y">>), Line(<<"Y", "E", "S", " ">>),
     Line(<<" ", "Y">>), Line(<<"n">>), Line(<<"y", "e">>),
     Line(<<"y", " ", "e", "s">>)}

NoOutput ==
    [report |-> NoRet, shown |-> FALSE, accepted_line |-> NoRet,
     passphrases |-> 0]

\* The main-line variables of a direct library call: main is not running.
MainIdle ==
    /\ pc = "idle"
    /\ environ = [secure_rng |-> TRUE, allow_weak |-> FALSE, wordfile |-> NoFile]
    /\ options = [count |-> 0]
    /\ rng = "SystemRandom"
    /\ my_wordlist = NoRet
    /\ stderr = <<>>
    /\ stdout = NoOutput
    /\ count = 0
    /\ passwd = NoRet
    /\ returned = NoRet
    /\ answer = NoAnswer
    /\ numwords_answer = NoAnswer
    /\ draws = {}

Init ==
    /\ call = [fn |-> "main"]
    /\ ret = NoRet
    /\ pc = "import"
    /\ environ \in [secure_rng : BOOLEAN, allow_weak : BOOLEAN,
                    wordfile : MainWordFiles]
    /\ options \in {o \in MainOptions :
                       /\ o.acrostic # <<>> <=> o.numwords = DEFAULT_NUMWORDS
                       /\ o.num_digits = 0 \/ o.num_symbols = 0}
    /\ rng = "unset"
    /\ my_wordlist = NoRet
    /\ stderr = <<>>
    /\ stdout = NoOutput
    /\ count = 0
    /\ passwd = NoRet
    /\ returned = NoRet
    /\ answer = NoAnswer
    /\ numwords_answer = NoAnswer
    /\ draws = {}

\* main returns exit_status.
Return(exit_status) ==
    /\ ret' = Ok(exit_status)
    /\ pc' = "done"

\* An exception other than SystemExit leaves main.
Raise(fault, where) ==
    /\ ret' = [kind |-> "fault", exc |-> fault.exc, in |-> where]
    /\ pc' = "done"

\* The module body: rng = random.SystemRandom, or the fallback.
ImportModule ==
    /\ pc = "import"
    /\ IF environ.secure_rng
       THEN /\ rng' = "SystemRandom"
            /\ pc' = "validate_options"
            /\ UNCHANGED <<stderr, ret>>
       ELSE IF environ.allow_weak
            THEN /\ stderr' = stderr \o <<RngWarning, ContinuingMessage>>
                 /\ rng' = "Random"
                 /\ pc' = "validate_options"
                 /\ UNCHANGED ret
            ELSE /\ stderr' = Append(stderr, RngWarning)
                 /\ Raise(Fault("AttributeError"), "import")
                 /\ UNCHANGED rng
    /\ UNCHANGED <<call, environ, options, my_wordlist, stdout, count, passwd,
                   returned, answer, numwords_answer, draws>>

\* main up to validate_options(parser, options), and the SystemExit handler.
ValidateOptions ==
    /\ pc = "validate_options"
    /\ LET warned == IF options.max_length < options.min_length
                     THEN Append(stderr, MaxLessThanMinWarning)
                     ELSE stderr
       IN IF ~environ.wordfile.found
          THEN /\ stderr' = Append(warned, NoWordFileMessage)
               /\ Return(1)
          ELSE /\ stderr' = warned
               /\ pc' = "generate_wordlist"
               /\ UNCHANGED ret
    /\ UNCHANGED <<call, environ, options, rng, my_wordlist, stdout, count,
                   passwd, returned, answer, numwords_answer, draws>>

\* my_wordlist = generate_wordlist(...)
LoadWordlist ==
    /\ pc = "generate_wordlist"
    /\ \E w \in generate_wordlist(environ.wordfile, options.min_length,
                                  options.max_length, options.valid_chars) :
           IF w.kind = "fault"
           THEN Raise(w, "generate_wordlist") /\ UNCHANGED my_wordlist
           ELSE /\ my_wordlist' = w
                /\ pc' = IF options.interactive
                         THEN "initialize_interactive_run"
                         ELSE IF options.verbose THEN "verbose_reports"
                         ELSE "emit_passwords"
                /\ UNCHANGED ret
    /\ count' = options.count
    /\ UNCHANGED <<call, environ, options, rng, stderr, stdout, passwd,
                   returned, answer, numwords_answer, draws>>

\* initialize_interactive_run(options), with try_input and the handler.
InitializeInteractiveRun ==
    /\ pc = "initialize_interactive_run"
    /\ IF options.acrostic # <<>>
       THEN /\ options' = [options EXCEPT !.numwords = Len(options.acrostic)]
            /\ pc' = IF options.verbose THEN "verbose_reports"
                     ELSE "emit_passwords"
            /\ UNCHANGED <<ret, stderr, numwords_answer>>
       ELSE \E a \in NumWordsAnswers :
                /\ numwords_answer' = a
                /\ IF a = Interrupt
                   THEN /\ Return(0)
                        /\ UNCHANGED <<options, stderr>>
                   ELSE LET n == n_words_validator(a.text, options.numwords)
                        IN IF n.kind = "exit"
                           THEN /\ stderr' = Append(stderr, n.stderr)
                                /\ Return(n.code)
                                /\ UNCHANGED options
                           ELSE /\ options' = [options EXCEPT !.numwords = n.val]
                                /\ pc' = IF options.verbose
                                         THEN "verbose_reports"
                                         ELSE "emit_passwords"
                                /\ UNCHANGED <<ret, stderr>>
    /\ UNCHANGED <<call, environ, rng, my_wordlist, stdout, count, passwd,
                   returned, answer, draws>>

\* verbose_reports(my_wordlist, options)
VerboseReports ==
    /\ pc = "verbose_reports"
    /\ LET r == verbose_reports(my_wordlist.val, options.acrostic,
                                options.numwords)
       IN IF r.kind = "fault"
          THEN Raise(r, "verbose_reports") /\ UNCHANGED stdout
          ELSE /\ stdout' = [stdout EXCEPT !.report = r]
               /\ pc' = "emit_passwords"
               /\ UNCHANGED ret
    /\ UNCHANGED <<call, environ, options, rng, my_wordlist, stderr, count,
                   passwd, returned, answer, numwords_answer, draws>>

\* The draws of one gen_passwd(): the words come from rng(), the digits and
\* the symbols from the random module's own functions (random.randint),
\* which share one hidden random.Random instance.
draws_of(out) ==
    (IF out.kind = "ok" /\ out.words # <<>>
     THEN {[what |-> "words", generator |-> rng]} ELSE {})
    \cup (IF out.kind = "ok" /\ options.num_digits > 0
          THEN {[what |-> "digits", generator |-> "Random"]} ELSE {})
    \cup (IF out.kind = "ok" /\ options.num_symbols > 0
          THEN {[what |-> "symbols", generator |-> "Random"]} ELSE {})

\* emit_passwords finds count > 0 and calls generate_xkcdpassword, which
\* sets passwd = None and builds worddict when acrostic is set.
CallGenerate ==
    /\ pc = "emit_passwords"
    /\ count > 0
    /\ passwd' = NoRet
    /\ returned' = NoRet
    /\ LET worddict == IF options.acrostic # <<>>
                       THEN wordlist_to_worddict(my_wordlist.val)
                       ELSE Ok(<<>>)
       IN IF worddict.kind = "fault"
          THEN Raise(worddict, "wordlist_to_worddict")
          ELSE pc' = "gen_passwd" /\ UNCHANGED ret
    /\ UNCHANGED <<call, environ, options, rng, my_wordlist, stderr, stdout,
                   count, answer, numwords_answer, draws>>

\* One gen_passwd() of generate_xkcdpassword.  Not interactive: its result
\* is returned, emit_passwords prints it and count goes down.  Interactive:
\* it is assigned to passwd and shown as "Generated: ...", and the prompt
\* follows.
GenPasswd ==
    /\ pc = "gen_passwd"
    /\ gen_passwd(my_wordlist.val,
                  IF options.acrostic # <<>>
                  THEN wordlist_to_worddict(my_wordlist.val).val ELSE <<>>,
                  options.numwords, options.acrostic, options.delimiter,
                  options.case, options.num_digits, options.num_symbols,
                  passwd')
    /\ draws' = draws \cup draws_of(passwd')
    /\ CASE passwd'.kind = "fault" ->
              /\ Raise(passwd', "choose_words")
              /\ UNCHANGED <<stderr, stdout, count, returned>>
         [] passwd'.kind = "exit" ->
              /\ stderr' = Append(stderr, passwd'.stderr)
              /\ Return(passwd'.code)
              /\ UNCHANGED <<stdout, count, returned>>
         [] passwd'.kind = "ok" /\ options.interactive ->
              /\ stdout' = [stdout EXCEPT !.shown = TRUE]
              /\ pc' = "prompt"
              /\ UNCHANGED <<ret, stderr, count, returned>>
         [] passwd'.kind = "ok" /\ ~options.interactive ->
              /\ returned' = Ok(passwd'.val)
              /\ stdout' = [stdout EXCEPT !.passphrases = @ + 1]
              /\ count' = count - 1
              /\ pc' = "emit_passwords"
              /\ UNCHANGED <<ret, stderr>>
    /\ UNCHANGED <<call, environ, options, rng, my_wordlist, answer,
                   numwords_answer>>

\* try_input("Accept? [yN] ", accepted_validator) and the end of the loop
\* body: an accepted passphrase is returned to emit_passwords, which prints
\* it and counts down; otherwise the loop generates again.  The rejected
\* passphrase is not read again: the model forgets it.
AnswerPrompt ==
    /\ pc = "prompt"
    /\ \E a \in AcceptAnswers :
           /\ answer' = a
           /\ IF a = Interrupt
              THEN /\ Return(0)
                   /\ UNCHANGED <<stdout, count, returned, passwd>>
              ELSE IF accepted_validator(a.text)
                   THEN /\ returned' = Ok(passwd.val)
                        /\ stdout' = [stdout EXCEPT
                                         !.accepted_line = Ok(TRUE),
                                         !.passphrases = @ + 1]
                        /\ count' = count - 1
                        /\ pc' = "emit_passwords"
                        /\ UNCHANGED <<ret, passwd>>
                   ELSE /\ stdout' = [stdout EXCEPT
                                         !.accepted_line = Ok(FALSE)]
                        /\ passwd' = NoRet
                        /\ pc' = "gen_passwd"
                        /\ UNCHANGED <<ret, count, returned>>
    /\ UNCHANGED <<call, environ, options, rng, my_wordlist, stderr,
                   numwords_answer, draws>>

\* emit_passwords ends when count is not positive; main returns 0.
Finish ==
    /\ pc = "emit_passwords"
    /\ count <= 0
    /\ Return(0)
    /\ UNCHANGED <<call, environ, options, rng, my_wordlist, stderr, stdout,
                   count, passwd, returned, answer, numwords_answer, draws>>

Next ==
    \/ ImportModule
    \/ ValidateOptions
    \/ LoadWordlist
    \/ InitializeInteractiveRun
    \/ VerboseReports
    \/ CallGenerate
    \/ GenPasswd
    \/ AnswerPrompt
    \/ Finish

Spec == Init /\ [][Next]_vars

---------------------------------------------------------------------------
(* Direct calls of the library functions. *)

\* Words handed to set_case: mixed case, a non-letter, U+00DF, the empty word.
CaseWordPool ==
    {<<>>, <<"a">>, <<"a", "B">>, <<"B", "a">>, <<"1", "a">>,
     <<"sz">>, <<"a", "sz">>}

SetCaseCalls ==
    {[fn |-> "set_case", words |-> ws, method |-> m, testing |-> t] :
        ws \in SeqsUpTo(CaseWordPool, MaxCaseWords),
        m \in CASE_METHODS, t \in BOOLEAN}

\* Lines of a word file: with and without surrounding whitespace, a blank
\* line, an inner space, an uppercase word, and a line spelling a brace
\* expression.
LinePool ==
    {<<"\n">>, <<"a", "\n">>, <<" ", "a", " ", "\n">>, <<"a", "b", "\n">>,
     <<"B", "a">>, <<"a", " ", "b", "\n">>, <<"a", "b", "s", "\n">>,
     <<"a", "{", "-", "1", ",", "2", "}", "\n">>}

\* The lengths handed to generate_wordlist (argparse's type=int takes any
\* integer).
LengthArgs == -1..3

GenerateWordlistCalls ==
    {[fn |-> "generate_wordlist", wordfile |-> f, min_length |-> lo,
      max_length |-> hi, valid_chars |-> vc] :
        f \in {NoFile} \cup {WordFile(ls) : ls \in SeqsUpTo(LinePool, MaxLines)},
        lo \in LengthArgs, hi \in LengthArgs, vc \in {".", "[a-z]"}}

\* Words of a word list; generate_wordlist keeps the empty word when
\* min_length is 0.
ListWordPool == {<<>>, <<"a">>, <<"a", "b">>, <<"b">>}

ChooseWordsCalls ==
    {[fn |-> "choose_words", wordlist |-> wl, numwords |-> n] :
        wl \in SeqsUpTo(ListWordPool, MaxListLen), n \in -1..MaxNumWords}

FindAcrosticCalls ==
    {[fn |-> "find_acrostic", acrostic |-> a, wordlist |-> wl] :
        a \in SeqsUpTo({"a", "b", "c"}, MaxAcrostic),
        wl \in SeqsUpTo(ListWordPool, MaxListLen)}

InitLib ==
    /\ call \in SetCaseCalls \cup GenerateWordlistCalls
                \cup ChooseWordsCalls \cup FindAcrosticCalls
    /\ ret = NoRet
    /\ MainIdle

SetCase ==
    /\ call.fn = "set_case"
    /\ ret = NoRet
    /\ \E r \in set_case(call.words, call.method, call.testing) :
           ret' = Ok(r)
    /\ UNCHANGED <<call, main_vars>>

GenerateWordlist ==
    /\ call.fn = "generate_wordlist"
    /\ ret = NoRet
    /\ ret' \in generate_wordlist(call.wordfile, call.min_length,
                                  call.max_length, call.valid_chars)
    /\ UNCHANGED <<call, main_vars>>

ChooseWords ==
    /\ call.fn = "choose_words"
    /\ ret = NoRet
    /\ ret' \in choose_words(call.wordlist, call.numwords)
    /\ UNCHANGED <<call, main_vars>>

\* find_acrostic(acrostic, wordlist_to_worddict(wordlist))
FindAcrostic ==
    /\ call.fn = "find_acrostic"
    /\ ret = NoRet
    /\ LET worddict == wordlist_to_worddict(call.wordlist)
       IN IF worddict.kind = "fault"
          THEN ret' = worddict
          ELSE ret' \in find_acrostic(call.acrostic, worddict.val)
    /\ UNCHANGED <<call, main_vars>>

NextLib == SetCase \/ GenerateWordlist \/ ChooseWords \/ FindAcrostic

SpecLib == InitLib /\ [][NextLib]_vars

\* Direct non-interactive calls of generate_xkcdpassword.  numwords is not
\* read in acrostic mode.  num_symbols is off, negative or the default: each
\* symbol is one of 27.
GenerateCalls ==
    {[fn |-> "generate_xkcdpassword", wordlist |-> wl, numwords |-> n,
      acrostic |-> a, delimiter |-> d, case |-> m, num_digits |-> nd,
      num_symbols |-> ns] :
        wl \in {<<>>, <<<<"a", "b">>, <<"B">>>>},
        n \in 0..MaxGenWords,
        a \in {<<>>, <<"B", "a">>, <<"a", "c">>},
        d \in {<<".">>, <<"-", "-">>},
        m \in CASE_METHODS,
        nd \in -1..MaxDigits,
        ns \in {-1, 0, DEFAULT_NUM_SYMBOLS}}

InitGen ==
    /\ call \in {c \in GenerateCalls : c.acrostic = <<>> \/ c.numwords = 0}
    /\ ret = NoRet
    /\ MainIdle

GenerateXkcdPassword ==
    /\ call.fn = "generate_xkcdpassword"
    /\ ret = NoRet
    /\ generate_xkcdpassword(call.wordlist, call.numwords, call.acrostic,
                             call.delimiter, call.case, call.num_digits,
                             call.num_symbols, ret')
    /\ UNCHANGED <<call, main_vars>>

NextGen == GenerateXkcdPassword

SpecGen == InitGen /\ [][NextGen]_vars

---------------------------------------------------------------------------
(* Properties of the library functions, under SpecLib. *)

Returned(fn) == call.fn = fn /\ ret # NoRet

\* The bounds of a word's length that C1 states.
EffectiveMax(lo, hi) == IF lo <= hi THEN hi ELSE lo

InClass(valid_chars, w) ==
    \A i \in DOMAIN w : class_match(valid_chars, w[i])

\* C1: generate_wordlist returns a list without duplicates; every word of it
\* is a whitespace-trimmed line of the source, consists only of characters
\* of the class and has a length between min_length and the effective
\* maximum (max_length, or min_length when min_length > max_length); and
\* every trimmed line that satisfies these conditions is in the list.
C1_FilterContract ==
    (Returned("generate_wordlist") /\ call.wordfile.found) =>
        LET lines == call.wordfile.lines
            trimmed == {str_strip(lines[i]) : i \in DOMAIN lines}
            lo == call.min_length
            hi == EffectiveMax(call.min_length, call.max_length)
            good(w) == /\ InClass(call.valid_chars, w)
                       /\ lo <= Len(w)
                       /\ Len(w) <= hi
        IN /\ ret.kind = "ok"
           /\ \A i, j \in DOMAIN ret.val : ret.val[i] = ret.val[j] => i = j
           /\ \A i \in DOMAIN ret.val : ret.val[i] \in trimmed /\ good(ret.val[i])
           /\ \A w \in trimmed : good(w) => w \in Range(ret.val)

\* C3: for a non-empty wordlist and k >= 0, choose_words returns exactly k
\* elements, each a member of the wordlist; for k = 0 the empty sequence.
C3_ChooseWordsExactlyK ==
    (Returned("choose_words") /\ call.wordlist # <<>> /\ call.numwords >= 0) =>
        /\ ret.kind = "ok"
        /\ Len(ret.val) = call.numwords
        /\ \A i \in DOMAIN ret.val : ret.val[i] \in Range(call.wordlist)
        /\ (call.numwords = 0 => ret.val = <<>>)

\* choose_words drew the same word of a two-word list twice.
C3_Witness ==
    /\ Returned("choose_words")
    /\ Len(call.wordlist) = 2
    /\ call.wordlist[1] # call.wordlist[2]
    /\ call.numwords = 2
    /\ ret.kind = "ok"
    /\ ret.val[1] = ret.val[2]

\* C4: find_acrostic(A, wordlist_to_worddict(W)) either returns Len(A) words,
\* the i-th a member of W whose first character is A[i], or, when some
\* character of A starts no word of W, writes "No words found starting with
\* <letter>" and exits with status 1.
C4_AcrosticOrExit ==
    Returned("find_acrostic") =>
        LET starts(c) == {i \in DOMAIN call.wordlist :
                             /\ call.wordlist[i] # <<>>
                             /\ call.wordlist[i][1] = c}
            unmet == {i \in DOMAIN call.acrostic : starts(call.acrostic[i]) = {}}
        IN \/ /\ ret.kind = "ok"
              /\ Len(ret.val) = Len(call.acrostic)
              /\ \A i \in DOMAIN ret.val :
                     /\ ret.val[i] \in Range(call.wordlist)
                     /\ ret.val[i] # <<>>
                     /\ ret.val[i][1] = call.acrostic[i]
           \/ /\ unmet # {}
              /\ ret.kind = "exit"
              /\ ret.code = 1
              /\ \E i \in unmet : ret.stderr = NoWordsMessage(call.acrostic[i])

\* The characters a character may become under a change of letter case.
CaseVariants(c) ==
    {<<c>>, upper_char(c), lower_char(c), title_char(c),
     Concat([i \in DOMAIN lower_char(c) |-> upper_char(lower_char(c)[i])])}

\* Every case mapping of every character of w is a single character.
SingleCharCase(w) ==
    \A i \in DOMAIN w : \A v \in CaseVariants(w[i]) : Len(v) = 1

\* v is w with each character replaced by one of its case variants.
IsCaseVariant(w, v) ==
    \E f \in [DOMAIN w -> UNION {CaseVariants(w[i]) : i \in DOMAIN w}] :
        /\ \A i \in DOMAIN w : f[i] \in CaseVariants(w[i])
        /\ v = Concat(f)

\* C8, as stated: set_case returns as many words as it was given, and the
\* i-th output word has as many characters as the i-th input word and
\* differs from it at most in letter case.
C8_LengthPreservingAsStated ==
    Returned("set_case") =>
        /\ Len(ret.val) = Len(call.words)
        /\ \A i \in DOMAIN call.words :
               /\ Len(ret.val[i]) = Len(call.words[i])
               /\ \A j \in DOMAIN call.words[i] :
                      <<ret.val[i][j]>> \in CaseVariants(call.words[i][j])

\* C8, amended: set_case returns as many words as it was given; the i-th
\* output word is the i-th input word with each character replaced by a case
\* mapping of it, and it has as many characters as the input word whenever
\* every character of that word has single-character case mappings.
C8_WordCountAndCaseOnly ==
    Returned("set_case") =>
        /\ Len(ret.val) = Len(call.words)
        /\ \A i \in DOMAIN call.words :
               /\ IsCaseVariant(call.words[i], ret.val[i])
               /\ SingleCharCase(call.words[i]) =>
                      /\ Len(ret.val[i]) = Len(call.words[i])
                      /\ \A j \in DOMAIN call.words[i] :
                             <<ret.val[i][j]>> \in CaseVariants(call.words[i][j])

\* alternating_case of three words changed the first and the third, kept
\* the length of a plain word and lengthened a word with U+00DF.
C8_Witness ==
    /\ Returned("set_case")
    /\ call.method = "alternating"
    /\ call.words = <<<<"a", "sz">>, <<"B", "a">>, <<"a">>>>
    /\ ret.val = <<<<"A", "S", "S">>, <<"b", "a">>, <<"A">>>>

---------------------------------------------------------------------------
(* Properties of the assembler, under SpecGen. *)

RECURSIVE TotalLen(_)
TotalLen(ws) == IF ws = <<>> THEN 0 ELSE Len(Head(ws)) + TotalLen(Tail(ws))

AtLeastZero(n) == IF n > 0 THEN n ELSE 0

\* C5: in non-interactive mode the string generate_xkcdpassword returns is
\* the cased words with the delimiter between consecutive words and none
\* after the last, then num_digits characters in 0..9, then num_symbols
\* characters of ALLOWED_SYMBOLS, and nothing else (a negative num_digits or
\* num_symbols appends nothing).
C5_PassphraseShape ==
    (Returned("generate_xkcdpassword") /\ ret.kind = "ok") =>
        LET p == ret.val
            cased == ret.cased
            n == Len(cased)
            d == call.delimiter
            nd == AtLeastZero(call.num_digits)
            ns == AtLeastZero(call.num_symbols)
            start(i) == 1 + TotalLen(SubSeq(cased, 1, i - 1)) + (i - 1) * Len(d)
            joined == TotalLen(cased) + AtLeastZero(n - 1) * Len(d)
        IN /\ cased \in set_case(ret.words, call.case, FALSE)
           /\ Len(p) = joined + nd + ns
           /\ \A i \in 1..n :
                  /\ SubSeq(p, start(i), start(i) + Len(cased[i]) - 1) = cased[i]
                  /\ i < n =>
                         SubSeq(p, start(i) + Len(cased[i]),
                                start(i) + Len(cased[i]) + Len(d) - 1) = d
           /\ \A k \in (joined + 1)..(joined + nd) : p[k] \in DigitChars
           /\ \A k \in (joined + nd + 1)..Len(p) : p[k] \in Range(ALLOWED_SYMBOLS)

\* "Ab.B" from the words "ab" and "B" in sentence case, then one digit and
\* one symbol.
C5_Witness ==
    /\ Returned("generate_xkcdpassword")
    /\ ret.kind = "ok"
    /\ call.case = "sentence"
    /\ call.delimiter = <<".">>
    /\ ret.words = <<<<"a", "b">>, <<"B">>>>
    /\ ret.val = <<"A", "b", ".", "B", "7", "!">>

---------------------------------------------------------------------------
(* Properties of a run of main, under Spec. *)

\* C2: no draw of a passphrase (words, digits, symbols) is taken from a
\* generator that is not cryptographically secure unless the weak-RNG
\* opt-in was given; without a secure generator and without the opt-in the
\* program fails at startup; a fallback to the weak generator is preceded by
\* a warning.
C2_NoWeakDrawWithoutOptIn ==
    /\ \A d \in draws : d.generator # "SystemRandom" => environ.allow_weak
    /\ (~environ.secure_rng /\ ~environ.allow_weak /\ pc # "import") =>
           (pc = "done" /\ ret.kind = "fault" /\ ret.in = "import")
    /\ rng = "Random" => RngWarning \in Range(stderr)

\* The candidate pool of the entropy report: the wordlist in plain mode, the
\* buckets of the acrostic's characters, summed, in acrostic mode.
PoolSize ==
    IF options.acrostic = <<>> THEN Len(my_wordlist.val)
    ELSE LET bucket(c) == {i \in DOMAIN my_wordlist.val :
                              /\ my_wordlist.val[i] # <<>>
                              /\ my_wordlist.val[i][1] = c}
             sizes == [i \in DOMAIN options.acrostic |->
                          [j \in 1..Cardinality(bucket(options.acrostic[i])) |-> 0]]
         IN TotalLen(sizes)

VerboseReportsRan ==
    \/ stdout.report # NoRet
    \/ pc = "done" /\ ret.kind = "fault" /\ ret.in = "verbose_reports"

\* C6: with a candidate pool of zero or one, verbose_reports fails with a
\* diagnostic: it neither raises an unhandled fault nor prints a report.
C6_ReportFailsGracefully ==
    (VerboseReportsRan /\ PoolSize \in {0, 1}) =>
        /\ ret.kind # "fault"
        /\ stdout.report = NoRet
        /\ stderr # <<>>

NothingEmitted ==
    /\ stdout.passphrases = 0
    /\ ~stdout.shown
    /\ returned = NoRet

FailedWith(message) ==
    /\ ret = Ok(1)
    /\ message \in Range(stderr)
    /\ NothingEmitted

\* An answer to the number-of-words prompt that is no positive integer.
BadNumber(a) ==
    /\ a.kind = "line"
    /\ a.text # <<>>
    /\ LET t == str_strip(a.text)
       IN \/ t = <<>>
          \/ \E i \in DOMAIN t : t[i] \notin DigitChars
          \/ \A i \in DOMAIN t : t[i] = "0"

\* The positions of the acrostic whose letter starts no word of my_wordlist.
UnmetLetters ==
    {i \in DOMAIN options.acrostic :
        \A k \in DOMAIN my_wordlist.val :
            \/ my_wordlist.val[k] = <<>>
            \/ my_wordlist.val[k][1] # options.acrostic[i]}

\* C7: a run of main that ends in a fatal input error (no word file, a
\* non-positive or non-integer number of words, an acrostic letter without
\* a bucket) has written a message to stderr, returns 1 and has emitted no
\* passphrase, whatever count and in both modes.
C7_FatalInputErrors ==
    (pc = "done" /\ ret.kind = "ok") =>
        /\ (rng # "unset" /\ ~environ.wordfile.found) =>
               FailedWith(NoWordFileMessage)
        /\ BadNumber(numwords_answer) => FailedWith(PositiveIntegerMessage)
        /\ (my_wordlist # NoRet /\ count > 0 /\ UnmetLetters # {}) =>
               \E i \in UnmetLetters :
                   FailedWith(NoWordsMessage(options.acrostic[i]))
        /\ ret = Ok(1) =>
               /\ NothingEmitted
               /\ \/ NoWordFileMessage \in Range(stderr)
                  \/ PositiveIntegerMessage \in Range(stderr)
                  \/ \E i \in DOMAIN options.acrostic :
                         NoWordsMessage(options.acrostic[i]) \in Range(stderr)

\* An interactive run with count 2 ended on the acrostic letter "c".
C7_Witness ==
    /\ pc = "done"
    /\ options.interactive
    /\ options.count = 2
    /\ options.acrostic = <<"a", "c">>
    /\ FailedWith(NoWordsMessage("c"))

\* C9: with an empty wordlist the run reaches neither choose_words nor the
\* entropy computation, and it ends with a diagnostic and an exit status,
\* not an unhandled fault.
C9_EmptyWordlistChecked ==
    my_wordlist = Ok(<<>>) =>
        /\ ~(pc = "gen_passwd" /\ options.acrostic = <<>>)
        /\ ~VerboseReportsRan
        /\ pc = "done" => (ret.kind = "ok" /\ stderr # <<>>)

\* An answer that, trimmed and lowercased, is "y" or "yes".
Accepting(a) ==
    /\ a.kind = "line"
    /\ str_lower(str_strip(a.text)) \in {<<"y">>, <<"y", "e", "s">>}

\* C10: in interactive mode generate_xkcdpassword returns only right after
\* an answer that is "y" or "yes" once trimmed and lowercased, and returns
\* the passphrase generated and shown right before that answer; any other
\* answer is followed by a fresh generation and a new prompt; an interrupted
\* prompt ends the run with exit status 0 and no passphrase returned.
C10_InteractiveLoop ==
    [][/\ (options.interactive /\ returned' # returned /\ returned' # NoRet) =>
              /\ pc = "prompt"
              /\ stdout.shown
              /\ Accepting(answer')
              /\ passwd.kind = "ok"
              /\ returned' = Ok(passwd.val)
       /\ (pc = "prompt" /\ answer' # Interrupt /\ ~Accepting(answer')) =>
              /\ pc' = "gen_passwd"
              /\ returned' = NoRet
              /\ count' = count
       /\ (pc = "gen_passwd" /\ answer # NoAnswer /\ ~Accepting(answer)) =>
              /\ pc' = "prompt"
              /\ passwd'.kind = "ok"
       /\ (pc = "prompt" /\ answer' = Interrupt) =>
              /\ pc' = "done"
              /\ ret' = Ok(0)
              /\ returned' = NoRet
              /\ stdout' = stdout
       /\ (pc = "prompt" /\ Accepting(answer')) => returned' # NoRet]_vars

\* "YES " accepted the second passphrase of an interactive run.
C10_Witness ==
    /\ options.interactive
    /\ options.count = 2
    /\ count = 0
    /\ answer = Line(<<"Y", "E", "S", " ">>)
    /\ stdout.accepted_line = Ok(TRUE)
    /\ returned = Ok(passwd.val)
    /\ stdout.passphrases = 2

====
